---------------------------- MODULE Spec2Model ----------------------------
(***************************************************************************)
(* Model of parkwalk-core: the timestamp challenge codec (createChallenge, *)
(* decodeTimestamp), the strict non-negative-integer parser and the park   *)
(* state machine (putChallenge, putSolution).                              *)
(*                                                                         *)
(* Representation:                                                         *)
(*   - a Buffer is a sequence of bytes (0..255);                           *)
(*   - a JS string is a sequence of code points;                           *)
(*   - a JS number that is an integer is a record [neg, mag] with mag the  *)
(*     decimal digits, most significant first, without leading zeros, so   *)
(*     that timestamps of 16 and more digits can be written down; NaN is   *)
(*     the value NaN.                                                      *)
(***************************************************************************)
EXTENDS Integers, Sequences, FiniteSets, TLC

(***************************************************************************)
(* Bytes and bit operations                                                *)
(***************************************************************************)
Byte == 0..255

\* bitwise exclusive or of two 4-bit values
RECURSIVE XorBits(_, _, _)
XorBits(a, b, n) ==
  IF n = 0 THEN 0
  ELSE ((a + b) % 2) + 2 * XorBits(a \div 2, b \div 2, n - 1)

Xor4 == [a \in 0..15 |-> [b \in 0..15 |-> XorBits(a, b, 4)]]

XorByte(a, b) == 16 * Xor4[a \div 16][b \div 16] + Xor4[a % 16][b % 16]

\* The 16 values g(1), ..., g(16) as a sequence.
Map16(g(_)) ==
  << g(1), g(2), g(3), g(4), g(5), g(6), g(7), g(8),
     g(9), g(10), g(11), g(12), g(13), g(14), g(15), g(16) >>

\* n times the value d
Rep(d, n) == <<>> \o [i \in 1..n |-> d]

\* exclusive or of two 16-byte blocks
XorBlock(s, t) == LET g(i) == XorByte(s[i], t[i]) IN Map16(g)

(***************************************************************************)
(* AES-128 (FIPS 197), the cipher behind 'aes-128-cbc'                     *)
(***************************************************************************)
AES_BLOCK == 16

SBox ==
  << 99, 124, 119, 123, 242, 107, 111, 197,  48,   1, 103,  43, 254, 215, 171, 118,
     202, 130, 201, 125, 250,  89,  71, 240, 173, 212, 162, 175, 156, 164, 114, 192,
     183, 253, 147,  38,  54,  63, 247, 204,  52, 165, 229, 241, 113, 216,  49,  21,
       4, 199,  35, 195,  24, 150,   5, 154,   7,  18, 128, 226, 235,  39, 178, 117,
       9, 131,  44,  26,  27, 110,  90, 160,  82,  59, 214, 179,  41, 227,  47, 132,
      83, 209,   0, 237,  32, 252, 177,  91, 106, 203, 190,  57,  74,  76,  88, 207,
     208, 239, 170, 251,  67,  77,  51, 133,  69, 249,   2, 127,  80,  60, 159, 168,
      81, 163,  64, 143, 146, 157,  56, 245, 188, 182, 218,  33,  16, 255, 243, 210,
     205,  12,  19, 236,  95, 151,  68,  23, 196, 167, 126,  61, 100,  93,  25, 115,
      96, 129,  79, 220,  34,  42, 144, 136,  70, 238, 184,  20, 222,  94,  11, 219,
     224,  50,  58,  10,  73,   6,  36,  92, 194, 211, 172,  98, 145, 149, 228, 121,
     231, 200,  55, 109, 141, 213,  78, 169, 108,  86, 244, 234, 101, 122, 174,   8,
     186, 120,  37,  46,  28, 166, 180, 198, 232, 221, 116,  31,  75, 189, 139, 138,
     112,  62, 181, 102,  72,   3, 246,  14,  97,  53,  87, 185, 134, 193,  29, 158,
     225, 248, 152,  17, 105, 217, 142, 148, 155,  30, 135, 233, 206,  85,  40, 223,
     140, 161, 137,  13, 191, 230,  66, 104,  65, 153,  45,  15, 176,  84, 187,  22 >>

\* the inverse of SBox: InvSBox[SBox[x + 1] + 1] = x
InvSBox ==
  <<  82,   9, 106, 213,  48,  54, 165,  56, 191,  64, 163, 158, 129, 243, 215, 251,
     124, 227,  57, 130, 155,  47, 255, 135,  52, 142,  67,  68, 196, 222, 233, 203,
      84, 123, 148,  50, 166, 194,  35,  61, 238,  76, 149,  11,  66, 250, 195,  78,
       8,  46, 161, 102,  40, 217,  36, 178, 118,  91, 162,  73, 109, 139, 209,  37,
     114, 248, 246, 100, 134, 104, 152,  22, 212, 164,  92, 204,  93, 101, 182, 146,
     108, 112,  72,  80, 253, 237, 185, 218,  94,  21,  70,  87, 167, 141, 157, 132,
     144, 216, 171,   0, 140, 188, 211,  10, 247, 228,  88,   5, 184, 179,  69,   6,
     208,  44,  30, 143, 202,  63,  15,   2, 193, 175, 189,   3,   1,  19, 138, 107,
      58, 145,  17,  65,  79, 103, 220, 234, 151, 242, 207, 206, 240, 180, 230, 115,
     150, 172, 116,  34, 231, 173,  53, 133, 226, 249,  55, 232,  28, 117, 223, 110,
      71, 241,  26, 113,  29,  41, 197, 137, 111, 183,  98,  14, 170,  24, 190,  27,
     252,  86,  62,  75, 198, 210, 121,  32, 154, 219, 192, 254, 120, 205,  90, 244,
      31, 221, 168,  51, 136,   7, 199,  49, 177,  18,  16,  89,  39, 128, 236,  95,
      96,  81, 127, 169,  25, 181,  74,  13,  45, 229, 122, 159, 147, 201, 156, 239,
     160, 224,  59,  77, 174,  42, 245, 176, 200, 235, 187,  60, 131,  83, 153,  97,
      23,  43,   4, 126, 186, 119, 214,  38, 225, 105,  20,  99,  85,  33,  12, 125 >>

\* multiplication by x in GF(2^8) modulo x^8 + x^4 + x^3 + x + 1
XTime == [x \in Byte |-> IF x < 128 THEN 2 * x ELSE XorByte((2 * x) % 256, 27)]

Mul2(x) == XTime[x]
Mul3(x) == XorByte(XTime[x], x)
Mul4(x) == XTime[XTime[x]]
Mul8(x) == XTime[XTime[XTime[x]]]
Mul9(x) == XorByte(Mul8(x), x)
Mul11(x) == XorByte(XorByte(Mul8(x), Mul2(x)), x)
Mul13(x) == XorByte(XorByte(Mul8(x), Mul4(x)), x)
Mul14(x) == XorByte(XorByte(Mul8(x), Mul4(x)), Mul2(x))

Xor4Way(a, b, c, d) == XorByte(XorByte(a, b), XorByte(c, d))

\* The state is kept in input order: byte i (1..16) is row (i-1)%4, column (i-1)\div 4.
SubBytes(s) == LET g(i) == SBox[s[i] + 1] IN Map16(g)
InvSubBytes(s) == LET g(i) == InvSBox[s[i] + 1] IN Map16(g)

ShiftRows(s) ==
  LET g(i) ==
           LET r == (i - 1) % 4
               c == (i - 1) \div 4
           IN s[r + 4 * ((c + r) % 4) + 1]
  IN Map16(g)

InvShiftRows(s) ==
  LET g(i) ==
           LET r == (i - 1) % 4
               c == (i - 1) \div 4
           IN s[r + 4 * ((c + 4 - r) % 4) + 1]
  IN Map16(g)

MixColumns(s) ==
  LET g(i) ==
           LET r == (i - 1) % 4
               c == (i - 1) \div 4
               a(k) == s[4 * c + ((r + k) % 4) + 1]
           IN Xor4Way(Mul2(a(0)), Mul3(a(1)), a(2), a(3))
  IN Map16(g)

InvMixColumns(s) ==
  LET g(i) ==
           LET r == (i - 1) % 4
               c == (i - 1) \div 4
               a(k) == s[4 * c + ((r + k) % 4) + 1]
           IN Xor4Way(Mul14(a(0)), Mul11(a(1)), Mul13(a(2)), Mul9(a(3)))
  IN Map16(g)

Rcon == <<1, 2, 4, 8, 16, 32, 64, 128, 27, 54>>

XorWord(s, t) ==
  << XorByte(s[1], t[1]), XorByte(s[2], t[2]), XorByte(s[3], t[3]), XorByte(s[4], t[4]) >>

\* The 176 bytes of the expanded key, one round key (4 words) at a time:
\* Expand[w, r] is the whole schedule, given the round keys 0..r-1 in w.
KeyExpansion(key) ==
  LET Expand[w \in Seq(Byte), r \in 1..11] ==
        IF r = 11 THEN w
        ELSE LET rk == SubSeq(w, 16 * r - 15, 16 * r)
                 g  == << XorByte(SBox[rk[14] + 1], Rcon[r]),
                          SBox[rk[15] + 1], SBox[rk[16] + 1], SBox[rk[13] + 1] >>
                 w0 == XorWord(SubSeq(rk, 1, 4), g)
                 w1 == XorWord(SubSeq(rk, 5, 8), w0)
                 w2 == XorWord(SubSeq(rk, 9, 12), w1)
                 w3 == XorWord(SubSeq(rk, 13, 16), w2)
             IN Expand[w \o w0 \o w1 \o w2 \o w3, r + 1]
  IN Expand[key, 1]

RoundKey(w, r) == SubSeq(w, 16 * r + 1, 16 * r + 16)

Block == [1..16 -> Byte]

\* Round[s, r]: the ciphertext block, given the state s entering round r.
AesEncryptBlock(w, block) ==
  LET Round[s \in Block, r \in 1..10] ==
        IF r = 10
        THEN XorBlock(ShiftRows(SubBytes(s)), RoundKey(w, 10))
        ELSE Round[XorBlock(MixColumns(ShiftRows(SubBytes(s))), RoundKey(w, r)), r + 1]
  IN Round[XorBlock(block, RoundKey(w, 0)), 1]

\* Round[s, r]: the plaintext block, given the state s entering inverse round r.
AesDecryptBlock(w, block) ==
  LET Round[s \in Block, r \in 0..9] ==
        IF r = 0
        THEN XorBlock(InvSubBytes(InvShiftRows(s)), RoundKey(w, 0))
        ELSE Round[InvMixColumns(XorBlock(InvSubBytes(InvShiftRows(s)), RoundKey(w, r))), r - 1]
  IN Round[XorBlock(block, RoundKey(w, 10)), 9]

(***************************************************************************)
(* Results of operations that may throw                                    *)
(***************************************************************************)
Ok(v) == [ok |-> TRUE, value |-> v]
Err(m) == [ok |-> FALSE, error |-> m]

(***************************************************************************)
(* crypto.createCipheriv / createDecipheriv with 'aes-128-cbc': CBC mode,  *)
(* PKCS#7 padding                                                          *)
(***************************************************************************)
Pkcs7Pad(data) ==
  LET n == AES_BLOCK - (Len(data) % AES_BLOCK)
  IN data \o [i \in 1..n |-> n]

\* Chain[prev, rest, out]: the ciphertext of out's plaintext followed by rest
CbcEncryptBlocks(w, iv, data) ==
  LET Chain[prev \in Block, rest \in Seq(Byte), out \in Seq(Byte)] ==
        IF rest = <<>> THEN out
        ELSE LET c == AesEncryptBlock(w, XorBlock(SubSeq(rest, 1, AES_BLOCK), prev))
             IN Chain[c, SubSeq(rest, AES_BLOCK + 1, Len(rest)), out \o c]
  IN Chain[iv, data, <<>>]

CbcDecryptBlocks(w, iv, data) ==
  LET Chain[prev \in Block, rest \in Seq(Byte), out \in Seq(Byte)] ==
        IF rest = <<>> THEN out
        ELSE LET c == SubSeq(rest, 1, AES_BLOCK)
             IN Chain[c, SubSeq(rest, AES_BLOCK + 1, Len(rest)),
                      out \o XorBlock(AesDecryptBlock(w, c), prev)]
  IN Chain[iv, data, <<>>]

\* the last n bytes of a decrypted text are the padding: n times the byte n
Pkcs7Unpad(data) ==
  LET n == data[Len(data)]
  IN IF /\ n \in 1..AES_BLOCK
        /\ \A i \in (Len(data) - n + 1)..Len(data) : data[i] = n
     THEN Ok(SubSeq(data, 1, Len(data) - n))
     ELSE Err("bad decrypt")

\* createCipheriv(...); cipher.update(plaintext); cipher.final()
AesCbcEncrypt(key, iv, plaintext) ==
  IF Len(key) # AES_BLOCK THEN Err("Invalid key length")
  ELSE IF Len(iv) # AES_BLOCK THEN Err("Invalid initialization vector")
  ELSE Ok(CbcEncryptBlocks(KeyExpansion(key), iv, Pkcs7Pad(plaintext)))

\* createDecipheriv(...); decipher.update(ciphertext); decipher.final()
AesCbcDecrypt(key, iv, ciphertext) ==
  IF Len(key) # AES_BLOCK THEN Err("Invalid key length")
  ELSE IF Len(iv) # AES_BLOCK THEN Err("Invalid initialization vector")
  ELSE IF Len(ciphertext) = 0 \/ Len(ciphertext) % AES_BLOCK # 0
       THEN Err("wrong final block length")
  ELSE Pkcs7Unpad(CbcDecryptBlocks(KeyExpansion(key), iv, ciphertext))

(***************************************************************************)
(* Strings: hex and UTF-8                                                  *)
(***************************************************************************)
\* the characters "0123456789abcdef"
HexDigit(v) == IF v < 10 THEN 48 + v ELSE 87 + v

\* Buffer.toString('hex') and the 'hex' output encoding of a cipher
HexEncode(buf) ==
  <<>> \o [i \in 1..(2 * Len(buf)) |->
             IF i % 2 = 1 THEN HexDigit(buf[(i + 1) \div 2] \div 16)
                          ELSE HexDigit(buf[i \div 2] % 16)]

\* the value of a hex digit, upper or lower case; -1 for any other character
HexVal(c) ==
  IF c \in 48..57 THEN c - 48
  ELSE IF c \in 97..102 THEN c - 87
  ELSE IF c \in 65..70 THEN c - 55
  ELSE -1

\* Buffer.from(s, 'hex') and the 'hex' input encoding of a decipher: the bytes of
\* the leading pairs of hex digits; decoding stops at the first pair that is not
\* two hex digits, and an odd last character is dropped.
HexDecode(s) ==
  LET valid(k) == HexVal(s[2 * k - 1]) >= 0 /\ HexVal(s[2 * k]) >= 0
      n == CHOOSE m \in 0..(Len(s) \div 2) :
             /\ \A k \in 1..m : valid(k)
             /\ m < Len(s) \div 2 => ~valid(m + 1)
  IN <<>> \o [k \in 1..n |-> 16 * HexVal(s[2 * k - 1]) + HexVal(s[2 * k])]

\* The UTF-8 bytes of a string of code points below 65536.
RECURSIVE Utf8Encode(_)
Utf8Encode(s) ==
  IF s = <<>> THEN <<>>
  ELSE LET c == Head(s)
       IN (IF c < 128 THEN <<c>>
           ELSE IF c < 2048 THEN <<192 + (c \div 64), 128 + (c % 64)>>
           ELSE <<224 + (c \div 4096), 128 + ((c \div 64) % 64), 128 + (c % 64)>>)
          \o Utf8Encode(Tail(s))

\* U+FFFD, which a decoder puts in the place of bytes that are not UTF-8
REPLACEMENT_CHAR == 65533

\* The string of a buffer read as UTF-8. One- and two-byte sequences are decoded;
\* every other byte gives U+FFFD (a longer sequence gives a character above
\* U+07FF in Node: either way a character that is no digit and no sign).
RECURSIVE Utf8DecodeFrom(_, _)
Utf8DecodeFrom(b, i) ==
  IF i > Len(b) THEN <<>>
  ELSE IF b[i] < 128 THEN <<b[i]>> \o Utf8DecodeFrom(b, i + 1)
  ELSE IF b[i] \in 194..223 /\ i < Len(b) /\ b[i + 1] \in 128..191
       THEN <<(b[i] - 192) * 64 + (b[i + 1] - 128)>> \o Utf8DecodeFrom(b, i + 2)
  ELSE <<REPLACEMENT_CHAR>> \o Utf8DecodeFrom(b, i + 1)

Utf8Decode(b) == Utf8DecodeFrom(b, 1)

\* String.prototype.split(sep) for a one-character separator: the parts between
\* the separators, at least one part.
RECURSIVE Split(_, _)
Split(s, sep) ==
  IF \A i \in 1..Len(s) : s[i] # sep THEN <<s>>
  ELSE LET k == CHOOSE i \in 1..Len(s) : s[i] = sep /\ \A j \in 1..(i - 1) : s[j] # sep
       IN <<SubSeq(s, 1, k - 1)>> \o Split(SubSeq(s, k + 1, Len(s)), sep)

(***************************************************************************)
(* Numbers. An integer is [nan |-> FALSE, neg, mag]: its sign and decimal  *)
(* digits (most significant first, no leading zero); -0 has neg and <<0>>. *)
(* The model writes integers up to 2^53 in magnitude, which a double holds *)
(* exactly.                                                                *)
(***************************************************************************)
Int10(neg, mag) == [nan |-> FALSE, neg |-> neg, mag |-> mag]
NaN == [nan |-> TRUE, neg |-> FALSE, mag |-> <<>>]

IsZero(n) == ~n.nan /\ n.mag = <<0>>

\* Number.prototype.toString(10) of NaN or an integer below 10^21 in magnitude
NumberToString(n) ==
  IF n.nan THEN <<78, 97, 78>>
  ELSE (IF n.neg /\ ~IsZero(n) THEN <<45>> ELSE <<>>)
       \o [i \in 1..Len(n.mag) |-> 48 + n.mag[i]]

\* StrWhiteSpaceChar: what parseInt skips at the start of its input
WhiteSpace ==
  {9, 10, 11, 12, 13, 32, 160, 5760, 8232, 8233, 8239, 8287, 12288, 65279}
    \cup 8192..8202

\* the index of the first character of s at or after i that is not in S
\* (Len(s) + 1 when there is none)
FirstNotIn(s, i, S) ==
  CHOOSE j \in i..(Len(s) + 1) :
    /\ j = Len(s) + 1 \/ s[j] \notin S
    /\ \A k \in i..(j - 1) : s[k] \in S

\* decimal digits without their leading zeros
StripZeros(d) ==
  LET k == FirstNotIn(d, 1, {0})
  IN IF k > Len(d) THEN <<0>> ELSE SubSeq(d, k, Len(d))

\* parseInt(s, 10): leading white space is skipped, then an optional sign, then
\* the longest run of decimal digits is read; NaN when there is no digit.
ParseInt(s) ==
  LET start == FirstNotIn(s, 1, WhiteSpace)
      signed == start <= Len(s) /\ s[start] \in {43, 45}
      neg == signed /\ s[start] = 45
      first == IF signed THEN start + 1 ELSE start
      end == FirstNotIn(s, first, 48..57)
  IN IF end = first THEN NaN
     ELSE Int10(neg, StripZeros([i \in 1..(end - first) |-> s[first + i - 1] - 48]))

(***************************************************************************)
(* utils.ts                                                                *)
(***************************************************************************)
\* t.Int alone: the codec without its refinement n >= 0
IsInteger(n) == ~n.nan

\* nonNegativeIntegerCodec: t.Int (Number.isInteger) refined by n >= 0
IsNonNegativeInteger(n) == ~n.nan /\ (~n.neg \/ IsZero(n))

castNonNegativeInteger(p) ==
  IF IsNonNegativeInteger(p) THEN Ok(p)
  ELSE Err("panic! wrong non negative integer for castNonNegativeInteger")

\* parseNonNegativeInteger without the check that n.toString(10) gives s back
parseNonNegativeIntegerLoose(s) ==
  LET n == ParseInt(s)
  IN IF n.nan THEN Err("parseNonNegativeInteger: is not a number")
     ELSE castNonNegativeInteger(n)

parseNonNegativeInteger(s) ==
  LET n == ParseInt(s)
  IN IF n.nan THEN Err("parseNonNegativeInteger: is not a number")
     ELSE IF NumberToString(n) # s THEN Err("parseNonNegativeInteger: is not a valid number")
     ELSE castNonNegativeInteger(n)

(***************************************************************************)
(* Validated strings                                                       *)
(***************************************************************************)
BYTE_RESTRICTION == 32
CHALLENGE_SEPARATOR == 58

\* tt.NonEmptyString
IsNonEmptyString(s) == Len(s) > 0

\* the encrypted part's codec without its length refinement
IsEncodedTimestampEncryptedPartAnyLength(s) == IsNonEmptyString(s)

\* encodedTimestampEncryptedPartCodec, ivCodec, secretKeyCodec
IsEncodedTimestampEncryptedPart(s) == IsNonEmptyString(s) /\ Len(s) = 32
IsIV(s) == IsNonEmptyString(s) /\ Len(s) = BYTE_RESTRICTION
IsSecretKey(s) == IsNonEmptyString(s) /\ Len(s) = BYTE_RESTRICTION

castEncodedTimestampEncryptedPart(s) ==
  IF IsEncodedTimestampEncryptedPart(s) THEN Ok(s)
  ELSE Err("Invalid value supplied to EncodedTimestampEncryptedPart")

\* castIV that cuts a longer string down to the length it wants
castIVTruncating(s) ==
  IF IsNonEmptyString(s) /\ Len(s) >= BYTE_RESTRICTION
  THEN Ok(SubSeq(s, 1, BYTE_RESTRICTION))
  ELSE Err("Invalid value supplied to IV")

castIV(s) == IF IsIV(s) THEN Ok(s) ELSE Err("Invalid value supplied to IV")

castSecretKey(s) == IF IsSecretKey(s) THEN Ok(s) ELSE Err("Invalid value supplied to SecretKey")

(***************************************************************************)
(* The random generator: a pure value, next() gives a signed 32-bit value  *)
(* and the next generator                                                  *)
(***************************************************************************)
RngStates == 0..65536

\* the generator made from an integer seed
RngFromSeed(seed) == (7919 * seed + 1) % 65537

\* rng.next(): <<value, next generator>>
RngNext(g) ==
  LET g1 == (75 * g + 74) % 65537
  IN <<32719 * g1 - 1073741824, g1>>

\* for (let i = 0; i < n; i++) { [n1, rng1] = rng.next(); rng = rng1; r[i] = n1 }
\* Loop[i, r, g]: the result, given i draws r made and the generator g.
randN(n, rng) ==
  LET Loop[i \in 0..n, r \in Seq(Int), g \in RngStates] ==
        IF i < n
        THEN LET d == RngNext(g) IN Loop[i + 1, Append(r, d[1]), d[2]]
        ELSE <<r, g>>
  IN Loop[0, <<>>, rng]

\* Buffer.from(array of numbers): each entry is truncated to a byte (entry & 255)
BufferFrom(a) == <<>> \o [i \in 1..Len(a) |-> a[i] % 256]

(***************************************************************************)
(* The challenge codec                                                     *)
(***************************************************************************)
KEY_BYTES == 16

\* the calls of createChallenge made, in order: [timestamp, rng, result]
VARIABLE calls

\* createChallenge on a generator that is shared and stepped in place: a call
\* draws on from where the call before it stopped
createChallengeSharedRng(timestamp, rng) ==
  LET from == IF calls # <<>> /\ calls[Len(calls)].result.ok
              THEN calls[Len(calls)].result.value[2] ELSE rng
      d1 == randN(KEY_BYTES, from)
      secretKey == BufferFrom(d1[1])
      d2 == randN(KEY_BYTES, d1[2])
      iv == BufferFrom(d2[1])
      cipher == AesCbcEncrypt(secretKey, iv, Utf8Encode(NumberToString(timestamp)))
  IN IF ~cipher.ok THEN cipher
     ELSE LET part == castEncodedTimestampEncryptedPart(HexEncode(cipher.value))
              ivHex == castIV(HexEncode(iv))
          IN IF ~part.ok THEN part
             ELSE IF ~ivHex.ok THEN ivHex
             ELSE Ok(<< [encodedTimestamp |-> part.value \o <<CHALLENGE_SEPARATOR>> \o ivHex.value,
                         secretKey |-> secretKey],
                        d2[2] >>)

\* createChallenge drawing the IV from the generator it was given, not from the
\* one the key's draws left
createChallengeReuseRng(timestamp, rng) ==
  LET d1 == randN(KEY_BYTES, rng)
      secretKey == BufferFrom(d1[1])
      d2 == randN(KEY_BYTES, rng)
      iv == BufferFrom(d2[1])
      cipher == AesCbcEncrypt(secretKey, iv, Utf8Encode(NumberToString(timestamp)))
  IN IF ~cipher.ok THEN cipher
     ELSE LET part == castEncodedTimestampEncryptedPart(HexEncode(cipher.value))
              ivHex == castIV(HexEncode(iv))
          IN IF ~part.ok THEN part
             ELSE IF ~ivHex.ok THEN ivHex
             ELSE Ok(<< [encodedTimestamp |-> part.value \o <<CHALLENGE_SEPARATOR>> \o ivHex.value,
                         secretKey |-> secretKey],
                        d2[2] >>)

\* createChallenge returning the key in its textual form, secretKey.toString('hex')
createChallengeHexKey(timestamp, rng) ==
  LET d1 == randN(KEY_BYTES, rng)
      secretKey == BufferFrom(d1[1])
      d2 == randN(KEY_BYTES, d1[2])
      iv == BufferFrom(d2[1])
      cipher == AesCbcEncrypt(secretKey, iv, Utf8Encode(NumberToString(timestamp)))
  IN IF ~cipher.ok THEN cipher
     ELSE LET part == castEncodedTimestampEncryptedPart(HexEncode(cipher.value))
              ivHex == castIV(HexEncode(iv))
          IN IF ~part.ok THEN part
             ELSE IF ~ivHex.ok THEN ivHex
             ELSE Ok(<< [encodedTimestamp |-> part.value \o <<CHALLENGE_SEPARATOR>> \o ivHex.value,
                         secretKey |-> HexEncode(secretKey)],
                        d2[2] >>)

\* createChallenge(timestamp)(rng): Ok(<<[encodedTimestamp, secretKey], rng2>>), or
\* the error thrown.
createChallenge(timestamp, rng) ==
  LET d1 == randN(KEY_BYTES, rng)
      secretKey == BufferFrom(d1[1])
      d2 == randN(KEY_BYTES, d1[2])
      iv == BufferFrom(d2[1])
      cipher == AesCbcEncrypt(secretKey, iv, Utf8Encode(NumberToString(timestamp)))
  IN IF ~cipher.ok THEN cipher
     ELSE LET part == castEncodedTimestampEncryptedPart(HexEncode(cipher.value))
              ivHex == castIV(HexEncode(iv))
          IN IF ~part.ok THEN part
             ELSE IF ~ivHex.ok THEN ivHex
             ELSE Ok(<< [encodedTimestamp |-> part.value \o <<CHALLENGE_SEPARATOR>> \o ivHex.value,
                         secretKey |-> secretKey],
                        d2[2] >>)

\* The text decodeTimestamp decrypts before it parses it: Ok(string), or the
\* error thrown on the way.
decryptPayload(encodedTimestamp, secretKey) ==
  LET parts == Split(encodedTimestamp, 58)
  IN IF Len(parts) < 2
     THEN Err("TypeError: the first argument of Buffer.from is undefined")
     ELSE LET plain == AesCbcDecrypt(secretKey, HexDecode(parts[2]), HexDecode(parts[1]))
          IN IF ~plain.ok THEN plain ELSE Ok(Utf8Decode(plain.value))

\* parseNonNegativeInteger(decoded), or the error thrown before
parseDecoded(decoded) ==
  IF ~decoded.ok THEN decoded ELSE parseNonNegativeInteger(decoded.value)

\* A call of decodeTimestamp: the text it decrypted (or the error thrown on the
\* way) and what it returned (or threw).
decodeTimestampTrace(encodedTimestamp, secretKey) ==
  LET decoded == decryptPayload(encodedTimestamp, secretKey)
  IN [payload |-> decoded, result |-> parseDecoded(decoded)]

\* decodeTimestamp(encodedTimestamp, secretKey): Ok(number), or the error thrown
decodeTimestamp(encodedTimestamp, secretKey) ==
  decodeTimestampTrace(encodedTimestamp, secretKey).result

(***************************************************************************)
(* The park record                                                         *)
(***************************************************************************)
EmptyPark == [_tag |-> "EmptyPark"]

\* { ...park, ...fields }: the fields of park, overwritten and extended by fields
Spread(park, fields) ==
  [k \in (DOMAIN park) \cup (DOMAIN fields) |->
     IF k \in DOMAIN fields THEN fields[k] ELSE park[k]]

\* { encodedTimestamp, _tag, ...park }: the fields of park written last
putChallengeParkLast(encodedTimestamp, park) ==
  Spread([encodedTimestamp |-> encodedTimestamp, _tag |-> "ParkWithChallenge"], park)

putChallenge(encodedTimestamp, park) ==
  Spread(park, [encodedTimestamp |-> encodedTimestamp, _tag |-> "ParkWithChallenge"])

\* { timestamp, secretKey, _tag }: putSolution without the spread of the park
putSolutionNoSpread(timestamp, secretKey, park) ==
  [timestamp |-> timestamp, secretKey |-> secretKey, _tag |-> "SolvedPark"]

\* putSolution that checks the solution against the challenge and leaves the
\* park as it is when the key does not decode the challenge to the timestamp
putSolutionVerified(timestamp, secretKey, park) ==
  IF decodeTimestamp(park.encodedTimestamp, HexDecode(secretKey)) = Ok(timestamp)
  THEN Spread(park, [timestamp |-> timestamp, secretKey |-> secretKey, _tag |-> "SolvedPark"])
  ELSE park

putSolution(timestamp, secretKey, park) ==
  Spread(park, [timestamp |-> timestamp, secretKey |-> secretKey, _tag |-> "SolvedPark"])

\* Object.freeze({ ... }): a new object; <<its reference, the heap with it>>
ObjectFreeze(obj, heap) == <<Len(heap) + 1, Append(heap, obj)>>

\* putChallenge(encodedTimestamp)(park) on a reference
putChallengeRef(encodedTimestamp, ref, heap) ==
  ObjectFreeze(putChallenge(encodedTimestamp, heap[ref]), heap)

\* Object.assign(park, { timestamp, secretKey, _tag }): the record written in place
putSolutionInPlace(timestamp, secretKey, ref, heap) ==
  <<ref, [heap EXCEPT ![ref] = putSolution(timestamp, secretKey, heap[ref])]>>

\* putSolution(timestamp, secretKey)(park) on a reference
putSolutionRef(timestamp, secretKey, ref, heap) ==
  ObjectFreeze(putSolution(timestamp, secretKey, heap[ref]), heap)

\* (park: PublicPark) as the parameter type of a transition
IsAnyPark(park) == TRUE

\* the parameter types of the transitions: (park: EmptyPark), (park: ParkWithChallenge)
IsEmptyPark(park) == park._tag = "EmptyPark"
IsParkWithChallenge(park) == park._tag = "ParkWithChallenge"

(***************************************************************************)
(* Inputs                                                                  *)
(***************************************************************************)
MaxSeed == 1
MaxObjects == 4

\* Bob, the issuer, and Alice, the solver
Holders == {"Bob", "Alice"}
MaxCalls == 2

Seeds == 0..MaxSeed

\* 0, 42, 1700000000000, 999999999999999 (15 digits), 1000000000000000 (16 digits),
\* -5 and -100000000000000 (16 characters)
Timestamps ==
  { Int10(FALSE, <<0>>),
    Int10(FALSE, <<4, 2>>),
    Int10(FALSE, <<1, 7>> \o Rep(0, 11)),
    Int10(FALSE, Rep(9, 15)),
    Int10(FALSE, <<1>> \o Rep(0, 15)),
    Int10(TRUE, <<5>>),
    Int10(TRUE, <<1>> \o Rep(0, 14)) }

\* A key and an IV of a third party, and the texts it encrypts:
\* "42", "0", "007", "-5", "5.0", "abc", "", "+5", " 5", "-0"
CraftKey == <<>> \o [i \in 1..16 |-> (7 * i) % 256]
CraftIv == <<>> \o [i \in 1..16 |-> (200 + 11 * i) % 256]

Payloads ==
  { <<52, 50>>, <<48>>, <<48, 48, 55>>, <<45, 53>>, <<53, 46, 48>>, <<97, 98, 99>>,
    <<>>, <<43, 53>>, <<32, 53>>, <<45, 48>> }

\* the encoded form of a text under a key and an IV, as createChallenge builds it
Encode(text, key, iv) ==
  HexEncode(AesCbcEncrypt(key, iv, Utf8Encode(text)).value)
    \o <<CHALLENGE_SEPARATOR>> \o HexEncode(iv)

Crafted == { Encode(p, CraftKey, CraftIv) : p \in Payloads }

\* a string that is no encoded timestamp: "0:0"
Junk == <<48, 58, 48>>

\* timestamps and secret keys a solver may put that come from no challenge
BogusTimestamp == Int10(FALSE, <<7>>)
BogusSecretKey == Rep(102, 32)

(***************************************************************************)
(* State                                                                   *)
(***************************************************************************)
VARIABLES
  timestamp,  \* the timestamp the issuer encodes
  rng,        \* the generator the issuer holds
  park,       \* the park record in the public slot
  last,       \* the last transition applied to the park: its arguments and input
  decoded,    \* the last call of decodeTimestamp: its arguments and result
  validated,  \* the last call of a parser or a cast: its name, input and result
  heap,       \* the park objects made so far; a reference is an index
  held,       \* the reference each holder has
  pred        \* the reference each holder applied its last transition to (0: none)

vars == <<timestamp, rng, calls, park, last, decoded, validated, heap, held, pred>>

(***************************************************************************)
(* The issuer, the public slot and the solver                              *)
(***************************************************************************)
Init ==
  /\ timestamp \in Timestamps
  /\ \E seed \in Seeds : rng = RngFromSeed(seed)
  /\ calls = <<>>
  /\ park = EmptyPark
  /\ last = [op |-> "none"]
  /\ decoded = [called |-> FALSE]
  /\ validated = [op |-> "none"]
  /\ heap = <<EmptyPark>>
  /\ held = [h \in Holders |-> 1]
  /\ pred = [h \in Holders |-> 0]

\* the results of the calls of createChallenge that returned
Challenges == { calls[i].result.value[1] : i \in { j \in 1..Len(calls) : calls[j].result.ok } }

\* const [challenge, rng1] = createChallenge(timestamp)(rng); the caller goes on
\* with rng1, or with rng again (the reference flow drops rng1)
CreateChallenge ==
  /\ Len(calls) < MaxCalls
  /\ LET result == createChallenge(timestamp, rng)
     IN /\ calls' = Append(calls, [timestamp |-> timestamp, rng |-> rng, result |-> result])
        /\ \E thread \in BOOLEAN :
             rng' = IF thread /\ result.ok THEN result.value[2] ELSE rng
  /\ UNCHANGED <<timestamp, park, last, decoded, validated, heap, held, pred>>

\* park = putChallenge(encodedTimestamp)(park)
PutChallenge ==
  /\ IsEmptyPark(park)
  /\ \E e \in { c.encodedTimestamp : c \in Challenges } \cup {Junk} :
       /\ park' = putChallenge(e, park)
       /\ last' = [op |-> "putChallenge", encodedTimestamp |-> e, park |-> park]
  /\ UNCHANGED <<timestamp, rng, calls, decoded, validated, heap, held, pred>>

\* park = putSolution(timestamp, castSecretKey(secretKey))(park)
PutSolution ==
  /\ IsParkWithChallenge(park)
  /\ \E t \in {BogusTimestamp} \cup
              (IF decoded.called /\ decoded.result.ok THEN {decoded.result.value} ELSE {}),
        k \in {BogusSecretKey} \cup { HexEncode(c.secretKey) : c \in Challenges } :
       /\ castSecretKey(k).ok
       /\ park' = putSolution(t, k, park)
       /\ last' = [op |-> "putSolution", timestamp |-> t, secretKey |-> k, park |-> park]
  /\ UNCHANGED <<timestamp, rng, calls, decoded, validated, heap, held, pred>>

\* decodeTimestamp(encodedTimestamp, secretKey)
DecodeTimestamp(encodedTimestamp, secretKey) ==
  /\ LET trace == decodeTimestampTrace(encodedTimestamp, secretKey)
     IN decoded' = [called |-> TRUE,
                    encodedTimestamp |-> encodedTimestamp,
                    secretKey |-> secretKey,
                    payload |-> trace.payload,
                    result |-> trace.result]
  /\ UNCHANGED <<timestamp, rng, calls, park, last, validated, heap, held, pred>>

\* the solver decodes what the park holds, with a key an issuer handed over
Decode ==
  /\ ~decoded.called
  /\ ~IsEmptyPark(park)
  /\ \E c \in Challenges : DecodeTimestamp(park.encodedTimestamp, c.secretKey)

Next == CreateChallenge \/ PutChallenge \/ Decode \/ PutSolution

Spec == Init /\ [][Next]_vars

(***************************************************************************)
(* The codec alone: decodeTimestamp on the encoded timestamps of the       *)
(* challenges, on variants of them and on crafted ones                     *)
(***************************************************************************)
\* e, e with a third part ":00", e with a trailing ":", and e's first part alone
Variants(e) ==
  { e, e \o <<58, 48, 48>>, e \o <<58>>, SubSeq(e, 1, BYTE_RESTRICTION) }

\* <<encoded timestamp, key>>: the crafted ones with their key; each challenge's
\* variants with its key; and a challenge and a crafted one with the wrong key
DecodeInputs ==
  { <<e, CraftKey>> : e \in Crafted \cup {Junk, <<>>} }
    \cup UNION { { <<e, c.secretKey>> : e \in Variants(c.encodedTimestamp) } : c \in Challenges }
    \cup { <<c.encodedTimestamp, CraftKey>> : c \in Challenges }
    \cup { <<Encode(<<52, 50>>, CraftKey, CraftIv), c.secretKey>> : c \in Challenges }

DecodeInput ==
  /\ ~decoded.called
  /\ \E in \in DecodeInputs : DecodeTimestamp(in[1], in[2])

\* the issuer makes its challenges, then the solver decodes
NextCodec == (~decoded.called /\ CreateChallenge) \/ DecodeInput

SpecCodec == Init /\ [][NextCodec]_vars

(***************************************************************************)
(* The validated-value layer alone: the parser and the casts on strings    *)
(***************************************************************************)
MaxStr == 3

\* the characters '0', '1', '7', '-', '+', ' ', '.', 'a'
ParseAlphabet == {48, 49, 55, 45, 43, 32, 46, 97}

\* "007", "-5", "5.0", "abc", "0", "123456789", "999999999999999", "1e3", "0x1f"
NamedStrings ==
  { <<48, 48, 55>>, <<45, 53>>, <<53, 46, 48>>, <<97, 98, 99>>, <<48>>,
    <<49, 50, 51, 52, 53, 54, 55, 56, 57>>, Rep(57, 15),
    <<49, 101, 51>>, <<48, 120, 49, 102>> }

\* every string of at most MaxStr characters of the alphabet, and the named ones
ParseInputs ==
  UNION { [1..n -> ParseAlphabet] : n \in 0..MaxStr } \cup NamedStrings

\* parseNonNegativeInteger(s)
ParseNonNegativeInteger ==
  /\ validated.op = "none"
  /\ \E s \in ParseInputs :
       validated' = [op |-> "parseNonNegativeInteger", input |-> s,
                     result |-> parseNonNegativeInteger(s)]
  /\ UNCHANGED <<timestamp, rng, calls, park, last, decoded, heap, held, pred>>

\* Strings as s.length counts them, in UTF-16 code units: one repeated character
\* ('a', 'z', ' ' or ':') of every length up to 32 + MaxStr and of length 64,
\* and sixteen U+1F600 (sixteen surrogate pairs, 32 code units)
CastInputs ==
  { Rep(c, n) : c \in {97, 122, 32, 58}, n \in (0..(BYTE_RESTRICTION + MaxStr)) \cup {64} }
    \cup { <<>> \o [i \in 1..32 |-> IF i % 2 = 1 THEN 55357 ELSE 56832] }

\* castEncodedTimestampEncryptedPart(s)
CastEncodedTimestampEncryptedPart ==
  /\ validated.op = "none"
  /\ \E s \in CastInputs :
       validated' = [op |-> "castEncodedTimestampEncryptedPart", input |-> s,
                     result |-> castEncodedTimestampEncryptedPart(s)]
  /\ UNCHANGED <<timestamp, rng, calls, park, last, decoded, heap, held, pred>>

\* castIV(s)
CastIV ==
  /\ validated.op = "none"
  /\ \E s \in CastInputs :
       validated' = [op |-> "castIV", input |-> s, result |-> castIV(s)]
  /\ UNCHANGED <<timestamp, rng, calls, park, last, decoded, heap, held, pred>>

\* castSecretKey(s)
CastSecretKey ==
  /\ validated.op = "none"
  /\ \E s \in CastInputs :
       validated' = [op |-> "castSecretKey", input |-> s, result |-> castSecretKey(s)]
  /\ UNCHANGED <<timestamp, rng, calls, park, last, decoded, heap, held, pred>>

NextValidate ==
  ParseNonNegativeInteger \/ CastEncodedTimestampEncryptedPart \/ CastIV \/ CastSecretKey

SpecValidate == Init /\ [][NextValidate]_vars

(***************************************************************************)
(* The park records as objects: holders of references apply transitions    *)
(***************************************************************************)
\* putChallenge(e)(p) by a holder of p
HeapPutChallenge(h) ==
  /\ Len(heap) < MaxObjects
  /\ IsEmptyPark(heap[held[h]])
  /\ \E e \in {Junk, Junk \o Junk} :
       LET r == putChallengeRef(e, held[h], heap)
       IN /\ heap' = r[2]
          /\ held' = [held EXCEPT ![h] = r[1]]
  /\ pred' = [pred EXCEPT ![h] = held[h]]
  /\ UNCHANGED <<timestamp, rng, calls, park, last, decoded, validated>>

\* putSolution(t, k)(p) by a holder of p
HeapPutSolution(h) ==
  /\ Len(heap) < MaxObjects
  /\ IsParkWithChallenge(heap[held[h]])
  /\ \E t \in {BogusTimestamp, timestamp}, k \in {BogusSecretKey, Rep(48, 32)} :
       LET r == putSolutionRef(t, k, held[h], heap)
       IN /\ heap' = r[2]
          /\ held' = [held EXCEPT ![h] = r[1]]
  /\ pred' = [pred EXCEPT ![h] = held[h]]
  /\ UNCHANGED <<timestamp, rng, calls, park, last, decoded, validated>>

\* a holder hands its record to another holder (the slot is read)
Hand(h1, h2) ==
  /\ h1 # h2
  /\ held[h2] # held[h1]
  /\ held' = [held EXCEPT ![h2] = held[h1]]
  /\ pred' = [pred EXCEPT ![h2] = 0]
  /\ UNCHANGED <<timestamp, rng, calls, park, last, decoded, validated, heap>>

NextHeap ==
  \E h \in Holders :
    \/ HeapPutChallenge(h)
    \/ HeapPutSolution(h)
    \/ \E h2 \in Holders : Hand(h, h2)

SpecHeap == Init /\ [][NextHeap]_vars

(***************************************************************************)
(* Properties                                                              *)
(***************************************************************************)
\* the calls of createChallenge that returned
Returned == { i \in 1..Len(calls) : calls[i].result.ok }

\* C1: round trip. For every non-negative integer timestamp and every seed,
\* createChallenge returns a result, and decodeTimestamp of that result's
\* encodedTimestamp and secretKey returns exactly the timestamp.
C1_RoundTrip ==
  \A i \in 1..Len(calls) :
    IsNonNegativeInteger(calls[i].timestamp) =>
      /\ calls[i].result.ok
      /\ LET c == calls[i].result.value[1]
         IN (decoded.called /\ decoded.encodedTimestamp = c.encodedTimestamp
                            /\ decoded.secretKey = c.secretKey)
              => decoded.result = Ok(calls[i].timestamp)

\* C2: park lifecycle. The park only ever changes from EmptyPark to
\* ParkWithChallenge, by putChallenge, and from ParkWithChallenge to SolvedPark,
\* by putSolution: no step goes back, skips a stage or leaves SolvedPark.
C2_Lifecycle ==
  [][ park' # park =>
        \/ /\ park._tag = "EmptyPark"
           /\ park'._tag = "ParkWithChallenge"
           /\ last'.op = "putChallenge"
        \/ /\ park._tag = "ParkWithChallenge"
           /\ park'._tag = "SolvedPark"
           /\ last'.op = "putSolution" ]_vars

C2_Witness == park._tag = "SolvedPark" /\ last.op = "putSolution"

\* C3: putChallenge(e) applied to EmptyPark succeeds for every encoded timestamp
\* e, and gives a record tagged ParkWithChallenge whose encodedTimestamp is e.
C3_PutChallenge ==
  /\ IsEmptyPark(park) => ENABLED PutChallenge
  /\ last.op = "putChallenge" =>
       /\ last.park = EmptyPark
       /\ park = [_tag |-> "ParkWithChallenge", encodedTimestamp |-> last.encodedTimestamp]

C3_Witness ==
  /\ last.op = "putChallenge"
  /\ park._tag = "ParkWithChallenge"
  /\ \E c \in Challenges : park.encodedTimestamp = c.encodedTimestamp

\* C4: putSolution(timestamp, secretKey) applied to a ParkWithChallenge record
\* succeeds and gives a record tagged SolvedPark with the encodedTimestamp of the
\* challenged record and the timestamp and secretKey supplied, whether or not
\* they decode the challenge.
C4_PutSolution ==
  last.op = "putSolution" =>
    /\ last.park._tag = "ParkWithChallenge"
    /\ park = [_tag |-> "SolvedPark",
               encodedTimestamp |-> last.park.encodedTimestamp,
               timestamp |-> last.timestamp,
               secretKey |-> last.secretKey]

\* a solution that does not decode the challenge the park holds
C4_Witness ==
  /\ last.op = "putSolution"
  /\ park._tag = "SolvedPark"
  /\ \E c \in Challenges : park.encodedTimestamp = c.encodedTimestamp
  /\ decodeTimestamp(park.encodedTimestamp, HexDecode(park.secretKey)) # Ok(park.timestamp)

\* the characters of lowercase hexadecimal
LowerHex == (48..57) \cup (97..102)

\* C5: shape. Every encodedTimestamp createChallenge returns has exactly one ':',
\* and the parts before and after it are 32 characters of lowercase hexadecimal.
C5_Shape ==
  \A i \in Returned :
    LET e == calls[i].result.value[1].encodedTimestamp
        parts == Split(e, 58)
    IN /\ Cardinality({ k \in 1..Len(e) : e[k] = 58 }) = 1
       /\ Len(parts) = 2
       /\ \A p \in 1..2 :
            /\ Len(parts[p]) = 32
            /\ \A k \in 1..32 : parts[p][k] \in LowerHex

C5_Witness ==
  /\ Returned # {}
  /\ \E i \in Returned : Len(calls[i].result.value[1].encodedTimestamp) = 65

\* C6: key size. The secretKey createChallenge returns is a buffer of exactly 16
\* bytes, whatever the magnitude or sign of the values the generator yields.
C6_KeySize ==
  \A i \in Returned :
    LET k == calls[i].result.value[1].secretKey
    IN /\ Len(k) = 16
       /\ \A j \in 1..Len(k) : k[j] \in Byte

\* a returned key made of draws below zero and draws above 255
C6_Witness ==
  \E i \in Returned :
    LET draws == randN(KEY_BYTES, calls[i].rng)[1]
    IN /\ \E j \in 1..Len(draws) : draws[j] < 0
       /\ \E j \in 1..Len(draws) : draws[j] > 255
       /\ Len(calls[i].result.value[1].secretKey) = 16

C8_NeverFails ==
  \A i \in 1..Len(calls) : calls[i].result.ok

\* C9: decodeTimestamp fails for every string that does not split on ':' into
\* exactly two parts.
C9_TwoParts ==
  (decoded.called /\ Len(Split(decoded.encodedTimestamp, 58)) # 2)
    => ~decoded.result.ok

\* the decimal digits of a string that is the canonical decimal form of a
\* non-negative integer: digits only, at least one, no leading zero but in "0"
IsCanonicalDecimal(s) ==
  /\ Len(s) > 0
  /\ \A k \in 1..Len(s) : s[k] \in 48..57
  /\ Len(s) > 1 => s[1] # 48

\* C10: decodeTimestamp returns n only when the decrypted payload is the
\* canonical decimal string of the non-negative integer n; for every other
\* payload and for every decryption failure it fails with the error raised, and
\* gives no value.
C10_StrictDecode ==
  decoded.called =>
    /\ decoded.result.ok =>
         /\ decoded.payload.ok
         /\ IsCanonicalDecimal(decoded.payload.value)
         /\ ~decoded.result.value.nan /\ ~decoded.result.value.neg
         /\ decoded.result.value.mag
              = [k \in 1..Len(decoded.payload.value) |-> decoded.payload.value[k] - 48]
    /\ (decoded.payload.ok /\ ~IsCanonicalDecimal(decoded.payload.value))
         => ~decoded.result.ok
    /\ ~decoded.payload.ok => decoded.result = decoded.payload
    /\ ~decoded.result.ok => DOMAIN decoded.result = {"ok", "error"}

\* the payload "007" decrypted and refused
C10_Witness ==
  /\ decoded.called
  /\ decoded.payload.ok
  /\ decoded.payload.value = <<48, 48, 55>>
  /\ ~decoded.result.ok

\* C11: parseNonNegativeInteger(s) returns n if and only if s is the canonical
\* base-10 string of the non-negative integer n, and throws otherwise: it
\* rejects "007", "-5", "5.0" and "abc" and accepts "0" and "123456789".
C11_Parser ==
  validated.op = "parseNonNegativeInteger" =>
    /\ validated.result.ok <=> IsCanonicalDecimal(validated.input)
    /\ validated.result.ok =>
         /\ ~validated.result.value.nan /\ ~validated.result.value.neg
         /\ validated.result.value.mag
              = [k \in 1..Len(validated.input) |-> validated.input[k] - 48]
    /\ ~validated.result.ok => DOMAIN validated.result = {"ok", "error"}
    /\ validated.input \in { <<48, 48, 55>>, <<45, 53>>, <<53, 46, 48>>, <<97, 98, 99>> }
         => ~validated.result.ok
    /\ validated.input \in { <<48>>, <<49, 50, 51, 52, 53, 54, 55, 56, 57>> }
         => validated.result.ok

\* "123456789" parsed to 123456789
C11_Witness ==
  /\ validated.op = "parseNonNegativeInteger"
  /\ validated.input = <<49, 50, 51, 52, 53, 54, 55, 56, 57>>
  /\ validated.result = Ok(Int10(FALSE, <<1, 2, 3, 4, 5, 6, 7, 8, 9>>))

\* the calls of the three validated-string constructors
CastOps == {"castEncodedTimestampEncryptedPart", "castIV", "castSecretKey"}

\* C12: each validated-string constructor returns its input unchanged when the
\* input is non-empty and exactly 32 characters (code units) long, and fails
\* with an error, and no value, for every other input: nothing is truncated or
\* padded to fit.
C12_Casts ==
  validated.op \in CastOps =>
    /\ validated.result.ok <=> (validated.input # <<>> /\ Len(validated.input) = 32)
    /\ validated.result.ok => validated.result.value = validated.input
    /\ ~validated.result.ok => DOMAIN validated.result = {"ok", "error"}

\* a string of 33 characters refused, by any of the three
C12_Witness ==
  /\ validated.op \in CastOps
  /\ Len(validated.input) = 33
  /\ ~validated.result.ok

\* C13: transitions do not mutate their input. Every record that exists keeps
\* its tag and fields through every step, the EmptyPark singleton included, and
\* the result of a transition is a new value: two holders of one
\* ParkWithChallenge each get their own SolvedPark record.
C13_NoMutation ==
  [][ /\ \A r \in DOMAIN heap : r \in DOMAIN heap' /\ heap'[r] = heap[r]
      /\ \A h \in Holders :
           (pred'[h] # pred[h] /\ pred'[h] # 0) =>
             /\ pred'[h] = held[h]
             /\ held'[h] \notin DOMAIN heap
             /\ held'[h] \in DOMAIN heap' ]_vars

\* two holders of one ParkWithChallenge have each put a different solution
C13_Witness ==
  /\ pred["Bob"] # 0 /\ pred["Bob"] = pred["Alice"]
  /\ heap[pred["Bob"]]._tag = "ParkWithChallenge"
  /\ held["Bob"] # held["Alice"]
  /\ heap[held["Bob"]]._tag = "SolvedPark" /\ heap[held["Alice"]]._tag = "SolvedPark"
  /\ heap[held["Bob"]].timestamp # heap[held["Alice"]].timestamp
  /\ heap[1] = EmptyPark

\* the n steps of a generator taken one after the other, each from the
\* generator the step before returned: <<value, generator>> of every step
StepsFrom(g0, n) ==
  LET Step[i \in 0..n, acc \in Seq(Int \X RngStates), g \in RngStates] ==
        IF i < n
        THEN LET d == RngNext(g) IN Step[i + 1, Append(acc, d), d[2]]
        ELSE acc
  IN Step[0, <<>>, g0]

\* C14: createChallenge steps the generator 32 times in sequence: the key's
\* bytes are draws 1 to 16 and the IV's bytes draws 17 to 32, each reduced to a
\* byte, and the generator returned is the one after the 32nd draw.
C14_Draws ==
  \A i \in Returned :
    LET steps == StepsFrom(calls[i].rng, 32)
        c == calls[i].result.value[1]
    IN /\ c.secretKey = [j \in 1..16 |-> steps[j][1] % 256]
       /\ Split(c.encodedTimestamp, 58)[2]
            = HexEncode([j \in 1..16 |-> steps[16 + j][1] % 256])
       /\ calls[i].result.value[2] = steps[32][2]

\* a challenge whose IV differs from its key, from a generator that moved on
C14_Witness ==
  \E i \in Returned :
    /\ Split(calls[i].result.value[1].encodedTimestamp, 58)[2]
         # HexEncode(calls[i].result.value[1].secretKey)
    /\ calls[i].result.value[2] # calls[i].rng
    /\ calls[i].result.value[2] # randN(KEY_BYTES, calls[i].rng)[2]

\* C15: end-to-end handshake. When the issuer runs createChallenge(t) and
\* putChallenge on EmptyPark and the solver runs decodeTimestamp with the
\* issuer's key and putSolution with the decoded timestamp and the key's hex
\* form, no step fails and the final record is the SolvedPark with the issuer's
\* t, the hex of the key and the encodedTimestamp published.
C15_Handshake ==
  IsNonNegativeInteger(timestamp) =>
    /\ \A i \in 1..Len(calls) :
         /\ calls[i].result.ok
         /\ castSecretKey(HexEncode(calls[i].result.value[1].secretKey)).ok
    /\ \A c \in Challenges :
         LET honest == /\ decoded.called
                       /\ decoded.encodedTimestamp = c.encodedTimestamp
                       /\ decoded.secretKey = c.secretKey
         IN /\ honest => decoded.result = Ok(timestamp)
            /\ ( /\ honest
                 /\ last.op = "putSolution"
                 /\ last.park = putChallenge(c.encodedTimestamp, EmptyPark)
                 /\ last.timestamp = decoded.result.value
                 /\ last.secretKey = HexEncode(c.secretKey) )
               => park = [_tag |-> "SolvedPark",
                          encodedTimestamp |-> c.encodedTimestamp,
                          secretKey |-> HexEncode(c.secretKey),
                          timestamp |-> timestamp]

\* C16: every park record reached from EmptyPark has exactly the fields of its
\* variant: EmptyPark its tag only, ParkWithChallenge its tag and
\* encodedTimestamp, SolvedPark its tag, encodedTimestamp, secretKey and
\* timestamp; no key and no timestamp is in the record before putSolution.
C16_Fields ==
  /\ park._tag \in {"EmptyPark", "ParkWithChallenge", "SolvedPark"}
  /\ park._tag = "EmptyPark" => DOMAIN park = {"_tag"}
  /\ park._tag = "ParkWithChallenge" => DOMAIN park = {"_tag", "encodedTimestamp"}
  /\ park._tag = "SolvedPark"
       => DOMAIN park = {"_tag", "encodedTimestamp", "secretKey", "timestamp"}
  /\ last.op = "putChallenge" => DOMAIN last.park = {"_tag"}
  /\ last.op = "putSolution" => DOMAIN last.park = {"_tag", "encodedTimestamp"}

\* a solved record made from a challenged record that held neither key nor
\* timestamp
C16_Witness ==
  /\ last.op = "putSolution"
  /\ DOMAIN last.park = {"_tag", "encodedTimestamp"}
  /\ DOMAIN park = {"_tag", "encodedTimestamp", "secretKey", "timestamp"}

=============================================================================
